---- MODULE Spec2Model ----
(***************************************************************************)
(* Domain marketplace backend: the listing store (crud.py, api.py) and the *)
(* ranking / recommendation engine (ranking.py).                           *)
(*                                                                         *)
(* Numbers.  The source computes in binary floating point.  The model      *)
(* computes in exact rationals <<n, d>> (d > 0, lowest terms).  For the    *)
(* integer inputs explored here every comparison of the source (ctr        *)
(* against a threshold, min against max) has the same outcome in both      *)
(* arithmetics, and round(x, k) is modelled as round-half-even of the      *)
(* exact value, delivered as an integer count of 10^-k units (a            *)
(* total_score of 9969 is 99.69).                                          *)
(***************************************************************************)
EXTENDS Integers, Sequences, FiniteSets, TLC

\* domains: the domains table.  last: the call handled last, as
\* [op, args, done, ret], done being FALSE while a drawn call awaits
\* evaluation; for requests in flight it also holds their position and
\* locals.
VARIABLES domains, last

vars == <<domains, last>>

(***************************************************************************)
(* Bounds of the exploration.                                              *)
(***************************************************************************)
MaxId == 2
MaxRows == 3
MaxRankRows == 2
MaxClicks == 25

(***************************************************************************)
(* Exact rational arithmetic.                                              *)
(***************************************************************************)
Abs(n) == IF n < 0 THEN -n ELSE n

RECURSIVE GCD(_, _)
GCD(a, b) == IF b = 0 THEN a ELSE GCD(b, a % b)

Rat(n, d) ==
    LET s == IF d < 0 THEN -1 ELSE 1
        g == GCD(Abs(n), Abs(d))
    IN  <<(s * n) \div g, (s * d) \div g>>

Num(n) == <<n, 1>>

RAdd(a, b) == Rat(a[1] * b[2] + b[1] * a[2], a[2] * b[2])
RSub(a, b) == Rat(a[1] * b[2] - b[1] * a[2], a[2] * b[2])
RMul(a, b) == Rat(a[1] * b[1], a[2] * b[2])
RDiv(a, b) == Rat(a[1] * b[2], a[2] * b[1])
RLe(a, b) == a[1] * b[2] <= b[1] * a[2]
RLt(a, b) == a[1] * b[2] < b[1] * a[2]
RGe(a, b) == RLe(b, a)
RMin(a, b) == IF RLe(a, b) THEN a ELSE b
RMax(a, b) == IF RLe(a, b) THEN b ELSE a

\* round(x, k) with scale = 10^k: the nearest integer to x * scale, a tie
\* going to the even neighbour.
Round(x, scale) ==
    LET n == x[1] * scale
        d == x[2]
        q == n \div d
        r == n % d
    IN  IF 2 * r < d THEN q
        ELSE IF 2 * r > d THEN q + 1
        ELSE IF q % 2 = 0 THEN q ELSE q + 1

(***************************************************************************)
(* Scoring configuration.                                                  *)
(***************************************************************************)
WEIGHTS ==
    [keyword_relevance |-> Num(30),
     engagement |-> Num(25),
     price_competitiveness |-> Num(25),
     conversion_signal |-> Num(15)]

BONUSES == [sold |-> Rat(10, 100), high_interest |-> Rat(8, 100)]

CTR_THRESHOLD == Rat(5, 100)
HIGH_INTEREST_THRESHOLD == Rat(15, 100)

(***************************************************************************)
(* Component scorers.                                                      *)
(***************************************************************************)
calculate_keyword_relevance(keyword_score) ==
    LET normalized == RMul(RDiv(Num(keyword_score), Num(100)),
                           WEIGHTS.keyword_relevance)
    IN  RMax(Num(0), RMin(normalized, WEIGHTS.keyword_relevance))

\* Faulty variant of calculate_engagement: a listing nobody viewed gets no
\* credit.
calculate_engagement_unviewed_zero(views, clicks) ==
    IF views = 0
    THEN Num(0)
    ELSE LET ctr == Rat(clicks, views)
         IN  IF RGe(ctr, HIGH_INTEREST_THRESHOLD)
             THEN WEIGHTS.engagement
             ELSE IF RGe(ctr, CTR_THRESHOLD)
             THEN RMul(WEIGHTS.engagement, RDiv(ctr, HIGH_INTEREST_THRESHOLD))
             ELSE RMul(RMul(WEIGHTS.engagement, RDiv(ctr, CTR_THRESHOLD)),
                       Rat(1, 2))

\* Faulty variant of calculate_engagement: the proportional credit of the
\* middle tier is not cut off at the high-interest threshold.
calculate_engagement_uncapped(views, clicks) ==
    IF views = 0
    THEN RMul(WEIGHTS.engagement, Rat(3, 10))
    ELSE LET ctr == Rat(clicks, views)
         IN  IF RGe(ctr, CTR_THRESHOLD)
             THEN RMul(WEIGHTS.engagement, RDiv(ctr, HIGH_INTEREST_THRESHOLD))
             ELSE RMul(RMul(WEIGHTS.engagement, RDiv(ctr, CTR_THRESHOLD)),
                       Rat(1, 2))

calculate_engagement(views, clicks) ==
    IF views = 0
    THEN RMul(WEIGHTS.engagement, Rat(3, 10))
    ELSE LET ctr == Rat(clicks, views)
         IN  IF RGe(ctr, HIGH_INTEREST_THRESHOLD)
             THEN WEIGHTS.engagement
             ELSE IF RGe(ctr, CTR_THRESHOLD)
             THEN LET ratio == RDiv(RSub(ctr, Num(0)), HIGH_INTEREST_THRESHOLD)
                  IN  RMul(WEIGHTS.engagement, ratio)
             ELSE RMul(RMul(WEIGHTS.engagement, RDiv(ctr, CTR_THRESHOLD)),
                       Rat(1, 2))

\* Faulty variant of calculate_conversion_signal: the two bonuses stack.
calculate_conversion_signal_stacked(is_sold, clicks, views) ==
    LET base == WEIGHTS.conversion_signal
        sold == IF is_sold THEN RMul(base, RAdd(Num(1), BONUSES.sold)) ELSE base
        score ==
            IF views > 0 /\ RGe(Rat(clicks, views), HIGH_INTEREST_THRESHOLD)
            THEN RMul(sold, RAdd(Num(1), BONUSES.high_interest))
            ELSE sold
    IN  RMin(score, RMul(WEIGHTS.conversion_signal, Rat(12, 10)))

calculate_conversion_signal(is_sold, clicks, views) ==
    LET base == WEIGHTS.conversion_signal
        score ==
            IF is_sold
            THEN RMul(base, RAdd(Num(1), BONUSES.sold))
            ELSE IF views > 0 /\ RGe(Rat(clicks, views), HIGH_INTEREST_THRESHOLD)
            THEN RMul(base, RAdd(Num(1), BONUSES.high_interest))
            ELSE base
    IN  RMin(score, RMul(WEIGHTS.conversion_signal, Rat(12, 10)))

(***************************************************************************)
(* The listing store.  `db` is the domains table: a sequence of rows in    *)
(* id order (models.py), which is the order a query returns them in.       *)
(***************************************************************************)
Categories == {"tech", "finance"}

NoRows == <<>>

Ids(db) == {db[i].id : i \in 1..Len(db)}

RECURSIVE MaxOf(_)
MaxOf(S) ==
    IF S = {} THEN 0
    ELSE LET x == CHOOSE y \in S : TRUE
             m == MaxOf(S \ {x})
         IN  IF x > m THEN x ELSE m

RECURSIVE MinOf(_)
MinOf(S) ==
    LET x == CHOOSE y \in S : TRUE
    IN  IF S = {x} THEN x
        ELSE LET m == MinOf(S \ {x}) IN IF x < m THEN x ELSE m

\* A query, db.query(...).filter(...).all(), is SelectSeq: the rows that
\* pass, in table order.  This one is
\* db.query(Domain).filter(Domain.id == domain_id).first(), as a sequence of
\* at most one row.
get_domain(db, domain_id) ==
    SelectSeq(db, LAMBDA r : r.id = domain_id)

\* db.query(Domain.price).filter(category == c, is_sold == False).all()
category_prices(db, category) ==
    LET rows == SelectSeq(db, LAMBDA r : r.category = category /\ ~r.is_sold)
    IN  [i \in 1..Len(rows) |-> rows[i].price]

(***************************************************************************)
(* Price competitiveness.  `fault` says that the category price query of   *)
(* this call raises; the outcome is [raised, value].                       *)
(***************************************************************************)
\* Faulty variant of NeutralPrice: the whole weight.
NeutralPriceFull == WEIGHTS.price_competitiveness

\* WEIGHTS["price_competitiveness"] * 0.5
NeutralPrice == RMul(WEIGHTS.price_competitiveness, Rat(1, 2))

\* Faulty variant of percentile: a dearer listing ranks higher.
percentile_ascending(domain_price, min_price, max_price) ==
    Rat(domain_price - min_price, max_price - min_price)

\* 1.0 - ((domain_price - min_price) / (max_price - min_price))
percentile(domain_price, min_price, max_price) ==
    RSub(Num(1), Rat(domain_price - min_price, max_price - min_price))

\* Faulty variant of clamp: the percentile is used as computed.
clamp_none(x) == x

\* max(0, min(price_percentile, 1.0))
clamp(x) == RMax(Num(0), RMin(x, Num(1)))

\* The body of the try block.
price_try(domain_price, category, db, fault) ==
    IF fault
    THEN [raised |-> TRUE, value |-> Num(0)]
    ELSE LET prices == category_prices(db, category)
             S == {prices[i] : i \in 1..Len(prices)}
         IN  IF Len(prices) = 0
             THEN [raised |-> FALSE, value |-> NeutralPrice]
             ELSE LET min_price == MinOf(S)
                      max_price == MaxOf(S)
                  IN  IF min_price = max_price
                      THEN [raised |-> FALSE, value |-> NeutralPrice]
                      ELSE LET price_percentile ==
                                   clamp(percentile(domain_price, min_price,
                                                    max_price))
                           IN  [raised |-> FALSE,
                                value |-> RMul(WEIGHTS.price_competitiveness,
                                               price_percentile)]

\* Faulty variant of price_except: the exception leaves the function.
price_except_reraise(attempt) == attempt

\* The except clause: any exception of the try block becomes neutral credit.
price_except(attempt) ==
    IF attempt.raised
    THEN [raised |-> FALSE, value |-> NeutralPrice]
    ELSE attempt

calculate_price_competitiveness(domain_price, category, db, fault) ==
    price_except(price_try(domain_price, category, db, fault))

(***************************************************************************)
(* The rank engine.                                                        *)
(***************************************************************************)
\* Faulty variant of max_possible: the smallest bonus instead of the largest.
max_possible_min_bonus ==
    RAdd(RAdd(RAdd(WEIGHTS.keyword_relevance, WEIGHTS.engagement),
              RAdd(WEIGHTS.price_competitiveness, WEIGHTS.conversion_signal)),
         RMul(WEIGHTS.conversion_signal, RMin(BONUSES.sold, BONUSES.high_interest)))

\* sum(WEIGHTS.values()) + WEIGHTS["conversion_signal"] * max(BONUSES.values())
max_possible ==
    RAdd(RAdd(RAdd(WEIGHTS.keyword_relevance, WEIGHTS.engagement),
              RAdd(WEIGHTS.price_competitiveness, WEIGHTS.conversion_signal)),
         RMul(WEIGHTS.conversion_signal, RMax(BONUSES.sold, BONUSES.high_interest)))

\* f"{x:.1f}" of a non-negative x.
Format1(x) ==
    LET t == Round(x, 10)
    IN  ToString(t \div 10) \o "." \o ToString(t % 10)

\* Faulty variant of Join: the notes are separated by ", ".
RECURSIVE Join_comma(_)
Join_comma(parts) ==
    IF Len(parts) = 1 THEN parts[1]
    ELSE parts[1] \o ", " \o Join_comma(Tail(parts))

\* "; ".join(parts)
RECURSIVE Join(_)
Join(parts) ==
    IF Len(parts) = 1 THEN parts[1]
    ELSE parts[1] \o "; " \o Join(Tail(parts))

\* The explanation of rank_domain; keyword_score is a float, printed "80.0".
explanation_of(domain) ==
    LET ctr == IF domain.views > 0 THEN Rat(domain.clicks, domain.views) ELSE Num(0)
        p1 == IF domain.keyword_score >= 80
              THEN <<"Strong keyword relevance ("
                     \o ToString(domain.keyword_score) \o ".0/100)">>
              ELSE <<>>
        p2 == IF RGe(ctr, HIGH_INTEREST_THRESHOLD)
              THEN <<"High engagement (" \o Format1(RMul(ctr, Num(100))) \o "% CTR)">>
              ELSE IF RGe(ctr, CTR_THRESHOLD)
              THEN <<"Moderate engagement ("
                     \o Format1(RMul(ctr, Num(100))) \o "% CTR)">>
              ELSE <<>>
        p3 == IF domain.is_sold THEN <<"Proven conversion (sold)">> ELSE <<>>
        explanation_parts == p1 \o p2 \o p3
    IN  IF explanation_parts # <<>> THEN Join(explanation_parts) ELSE "Baseline domain"

\* min(100, (total_score / max_possible) * 100)
normalize(total_score) ==
    RMin(Num(100), RMul(RDiv(total_score, max_possible), Num(100)))

\* The outcome is [raised |-> TRUE] when a scorer raised, else the result.
rank_domain(domain, db, fault) ==
    LET keyword_score == calculate_keyword_relevance(domain.keyword_score)
        engagement_score == calculate_engagement(domain.views, domain.clicks)
        price == calculate_price_competitiveness(domain.price, domain.category,
                                                 db, fault)
        price_score == price.value
        conversion_score ==
            calculate_conversion_signal(domain.is_sold, domain.clicks, domain.views)
        total_score ==
            RAdd(RAdd(keyword_score, engagement_score),
                 RAdd(price_score, conversion_score))
        normalized_score == normalize(total_score)
    IN  IF price.raised
        THEN [raised |-> TRUE]
        ELSE [raised |-> FALSE,
              total_score |-> Round(normalized_score, 100),
              scores |-> [keyword_relevance |-> Round(keyword_score, 100),
                          engagement |-> Round(engagement_score, 100),
                          price_competitiveness |-> Round(price_score, 100),
                          conversion_signal |-> Round(conversion_score, 100)],
              explanation |-> explanation_of(domain)]

(***************************************************************************)
(* The recommendation query.  An optional filter is a set: {} when the     *)
(* argument is None, {v} when it is v.  `faults` is the set of queries of  *)
(* this call that raise: 0 stands for the candidate query, a listing id    *)
(* for the category price query made while ranking that listing.           *)
(***************************************************************************)
\* Faulty variant of eligible: sold listings pass.
eligible_sold_too(r, price_min, price_max, category_filter) ==
    /\ \A m \in price_min : r.price >= m
    /\ \A m \in price_max : r.price <= m
    /\ \A c \in category_filter : r.category = c

eligible(r, price_min, price_max, category_filter) ==
    /\ ~r.is_sold
    /\ \A m \in price_min : r.price >= m
    /\ \A m \in price_max : r.price <= m
    /\ \A c \in category_filter : r.category = c

candidates(db, price_min, price_max, category_filter) ==
    SelectSeq(db, LAMBDA r : eligible(r, price_min, price_max, category_filter))

ranked_entry(domain, ranking) ==
    [id |-> domain.id,
     domain_name |-> domain.domain_name,
     category |-> domain.category,
     price |-> domain.price,
     keyword_score |-> domain.keyword_score,
     views |-> domain.views,
     clicks |-> domain.clicks,
     ctr |-> IF domain.views > 0
             THEN Round(Rat(domain.clicks, domain.views), 10000) ELSE 0,
     ranking |-> ranking]

\* Faulty variant of insert_desc: an entry goes before the entries whose key
\* equals its own, as in an ascending sort that is reversed afterwards.
RECURSIVE insert_desc_before_equal(_, _)
insert_desc_before_equal(sorted, e) ==
    IF sorted = <<>> THEN <<e>>
    ELSE IF Head(sorted).ranking.total_score > e.ranking.total_score
    THEN <<Head(sorted)>> \o insert_desc_before_equal(Tail(sorted), e)
    ELSE <<e>> \o sorted

\* list.sort(key = total_score, reverse = True): descending and stable, so
\* an entry goes after every entry whose key is at least its own.
RECURSIVE insert_desc(_, _)
insert_desc(sorted, e) ==
    IF sorted = <<>> THEN <<e>>
    ELSE IF Head(sorted).ranking.total_score >= e.ranking.total_score
    THEN <<Head(sorted)>> \o insert_desc(Tail(sorted), e)
    ELSE <<e>> \o sorted

\* Faulty variant of sort_desc: the candidates stay in table order.
sort_none(ranked) == ranked

RECURSIVE sort_desc(_)
sort_desc(ranked) ==
    IF ranked = <<>> THEN <<>>
    ELSE insert_desc(sort_desc(SubSeq(ranked, 1, Len(ranked) - 1)),
                     ranked[Len(ranked)])

\* Faulty variant of top_n: one entry short.
top_n_short(ranked, limit) ==
    SubSeq(ranked, 1, IF limit - 1 < Len(ranked) THEN limit - 1 ELSE Len(ranked))

\* ranked[:limit] for limit >= 1
top_n(ranked, limit) ==
    SubSeq(ranked, 1, IF limit < Len(ranked) THEN limit ELSE Len(ranked))

\* Faulty variant of get_top_recommendations: the category prices are taken
\* over the candidates that passed the filters.
get_top_recommendations_filtered_prices(db, limit, price_min, price_max, category_filter, faults) ==
    LET cands == candidates(db, price_min, price_max, category_filter)
        rankings == [i \in 1..Len(cands) |->
                        rank_domain(cands[i], cands, cands[i].id \in faults)]
        ranked == [i \in 1..Len(cands) |-> ranked_entry(cands[i], rankings[i])]
    IN  IF 0 \in faults \/ \E i \in 1..Len(cands) : rankings[i].raised
        THEN [raised |-> TRUE]
        ELSE [raised |-> FALSE, value |-> top_n(sort_desc(ranked), limit)]

get_top_recommendations(db, limit, price_min, price_max, category_filter, faults) ==
    LET cands == candidates(db, price_min, price_max, category_filter)
        rankings == [i \in 1..Len(cands) |->
                        rank_domain(cands[i], db, cands[i].id \in faults)]
        ranked == [i \in 1..Len(cands) |-> ranked_entry(cands[i], rankings[i])]
    IN  IF 0 \in faults \/ \E i \in 1..Len(cands) : rankings[i].raised
        THEN [raised |-> TRUE]
        ELSE [raised |-> FALSE, value |-> top_n(sort_desc(ranked), limit)]

get_category_recommendations(db, category, limit, price_min, price_max, faults) ==
    get_top_recommendations(db, limit, price_min, price_max, {category}, faults)

(***************************************************************************)
(* CRUD (crud.py) and the endpoints over it (api.py).                      *)
(***************************************************************************)
Names(db) == {db[i].domain_name : i \in 1..Len(db)}

\* Column(Integer, primary_key=True): the next rowid is one past the largest.
next_id(db) == MaxOf(Ids(db)) + 1

\* crud.create_domain: insert and commit; the unique index on domain_name
\* makes the commit raise when the name is already stored.
create_domain(db, domain_create) ==
    LET domain == [id |-> next_id(db),
                   domain_name |-> domain_create.domain_name,
                   category |-> domain_create.category,
                   price |-> domain_create.price,
                   keyword_score |-> domain_create.keyword_score,
                   views |-> domain_create.views,
                   clicks |-> domain_create.clicks,
                   is_sold |-> domain_create.is_sold]
    IN  IF domain_create.domain_name \in Names(db)
        THEN [raised |-> TRUE, db |-> db]
        ELSE [raised |-> FALSE, db |-> Append(db, domain), value |-> domain]

\* setattr(domain, key, value) for every key of update_data
apply_update(domain, update_data) ==
    [f \in DOMAIN domain |->
        IF f \in DOMAIN update_data THEN update_data[f] ELSE domain[f]]

\* crud.update_domain: found is whether a row was updated (None otherwise).
update_domain(db, domain_id, update_data) ==
    IF get_domain(db, domain_id) = <<>>
    THEN [found |-> FALSE, db |-> db]
    ELSE [found |-> TRUE,
          db |-> [i \in 1..Len(db) |->
                    IF db[i].id = domain_id
                    THEN apply_update(db[i], update_data) ELSE db[i]],
          value |-> apply_update(get_domain(db, domain_id)[1], update_data)]

\* crud.delete_domain
delete_domain(db, domain_id) ==
    IF get_domain(db, domain_id) = <<>>
    THEN [found |-> FALSE, db |-> db]
    ELSE [found |-> TRUE, db |-> SelectSeq(db, LAMBDA r : r.id # domain_id)]

create_domain_endpoint(domain_create) ==
    LET existing == SelectSeq(domains,
                          LAMBDA r : r.domain_name = domain_create.domain_name)
        created == create_domain(domains, domain_create)
    IN  IF existing # <<>>
        THEN /\ last' = [op |-> "create_domain_endpoint",
                         ret |-> [status |-> 400,
                                  detail |-> "Domain name already exists"]]
             /\ UNCHANGED domains
        ELSE /\ domains' = created.db
             /\ last' = [op |-> "create_domain_endpoint",
                         ret |-> [status |-> 201, body |-> created.value]]

update_domain_endpoint(domain_id, domain_update) ==
    LET updated == update_domain(domains, domain_id, domain_update)
    IN  /\ domains' = updated.db
        /\ last' = [op |-> "update_domain_endpoint",
                    ret |-> IF updated.found
                            THEN [status |-> 200, body |-> updated.value]
                            ELSE [status |-> 404, detail |-> "Domain not found"]]

delete_domain_endpoint(domain_id) ==
    LET deleted == delete_domain(domains, domain_id)
    IN  /\ domains' = deleted.db
        /\ last' = [op |-> "delete_domain_endpoint",
                    ret |-> IF deleted.found
                            THEN [status |-> 204]
                            ELSE [status |-> 404, detail |-> "Domain not found"]]

(***************************************************************************)
(* The recommendation endpoints.  An exception that leaves the handler is  *)
(* answered with status 500.                                               *)
(***************************************************************************)
recommendations_response(outcome, limit) ==
    IF outcome.raised
    THEN [status |-> 500]
    ELSE [status |-> 200,
          count |-> Len(outcome.value),
          limit |-> limit,
          recommendations |-> outcome.value]

recommendations_top(limit, price_min, price_max, faults) ==
    /\ last' = [op |-> "recommendations_top",
                args |-> [limit |-> limit, price_min |-> price_min,
                          price_max |-> price_max, category_filter |-> {},
                          faults |-> faults],
                ret |-> recommendations_response(
                            get_top_recommendations(domains, limit, price_min,
                                                    price_max, {}, faults),
                            limit)]
    /\ UNCHANGED domains

recommendations_by_category(category, limit, price_min, price_max, faults) ==
    /\ last' = [op |-> "recommendations_by_category",
                args |-> [limit |-> limit, price_min |-> price_min,
                          price_max |-> price_max, category_filter |-> {category},
                          faults |-> faults],
                ret |-> recommendations_response(
                            get_category_recommendations(domains, category, limit,
                                                         price_min, price_max, faults),
                            limit)]
    /\ UNCHANGED domains

(***************************************************************************)
(* Direct calls of the engine's functions.  The call is drawn by Init as   *)
(* [op, args, done |-> FALSE]; the action evaluates it against the table   *)
(* and records what it returns.                                            *)
(***************************************************************************)
call_calculate_engagement ==
    /\ last.op = "calculate_engagement" /\ ~last.done
    /\ last' = [op |-> last.op, args |-> last.args, done |-> TRUE,
                ret |-> calculate_engagement(last.args.views, last.args.clicks)]
    /\ UNCHANGED domains

call_calculate_conversion_signal ==
    /\ last.op = "calculate_conversion_signal" /\ ~last.done
    /\ last' = [op |-> last.op, args |-> last.args, done |-> TRUE,
                ret |-> calculate_conversion_signal(
                            last.args.is_sold, last.args.clicks, last.args.views)]
    /\ UNCHANGED domains

call_calculate_price_competitiveness ==
    /\ last.op = "calculate_price_competitiveness" /\ ~last.done
    /\ last' = [op |-> last.op, args |-> last.args, done |-> TRUE,
                ret |-> calculate_price_competitiveness(
                            last.args.domain_price, last.args.category,
                            domains, last.args.fault)]
    /\ UNCHANGED domains

call_rank_domain ==
    /\ last.op = "rank_domain" /\ ~last.done
    /\ last' = [op |-> last.op, args |-> last.args, done |-> TRUE,
                ret |-> rank_domain(last.args.domain, domains, last.args.fault)]
    /\ UNCHANGED domains

\* Faulty variant of call_get_top_recommendations: the call records a view
\* on every candidate it ranks.
call_get_top_recommendations_counting_views ==
    /\ last.op = "get_top_recommendations" /\ ~last.done
    /\ last' = [op |-> last.op, args |-> last.args, done |-> TRUE,
                ret |-> get_top_recommendations(
                            domains, last.args.limit, last.args.price_min,
                            last.args.price_max, last.args.category_filter,
                            last.args.faults)]
    /\ domains' = [i \in 1..Len(domains) |->
                     IF eligible(domains[i], last.args.price_min,
                                 last.args.price_max, last.args.category_filter)
                     THEN [domains[i] EXCEPT !.views = @ + 1]
                     ELSE domains[i]]

call_get_top_recommendations ==
    /\ last.op = "get_top_recommendations" /\ ~last.done
    /\ last' = [op |-> last.op, args |-> last.args, done |-> TRUE,
                ret |-> get_top_recommendations(
                            domains, last.args.limit, last.args.price_min,
                            last.args.price_max, last.args.category_filter,
                            last.args.faults)]
    /\ UNCHANGED domains

call_get_category_recommendations ==
    /\ last.op = "get_category_recommendations" /\ ~last.done
    /\ last' = [op |-> last.op, args |-> last.args, done |-> TRUE,
                ret |-> get_category_recommendations(
                            domains, last.args.category, last.args.limit,
                            last.args.price_min, last.args.price_max,
                            last.args.faults)]
    /\ UNCHANGED domains

(***************************************************************************)
(* Inputs.                                                                 *)
(***************************************************************************)
Prices == {1, 2, 3}

\* The listings on offer: the i-th listing created carries these intrinsic
\* attributes; its category, price and sold flag vary.
CatalogueBase ==
    <<[keyword_score |-> 50, views |-> 0, clicks |-> 0],
      [keyword_score |-> 100, views |-> 20, clicks |-> 3],
      [keyword_score |-> 0, views |-> 20, clicks |-> 1],
      [keyword_score |-> 80, views |-> 100, clicks |-> 4]>>

Catalogue(i) == CatalogueBase[((i - 1) % Len(CatalogueBase)) + 1]

NameOf(i) == "d" \o ToString(i) \o ".com"

\* What a create request says of the listing's market state: any category
\* and price when unsold, and two sold listings whose prices lie at the ends
\* of the price range.
Offers ==
    [category : Categories, price : Prices, is_sold : {FALSE}]
    \cup {[category |-> "tech", price |-> 1, is_sold |-> TRUE],
          [category |-> "finance", price |-> 3, is_sold |-> TRUE]}

\* DomainCreate payloads for the listing that would get id i.
Payloads(i, names) ==
    {[domain_name |-> n, category |-> o.category, price |-> o.price,
      keyword_score |-> Catalogue(i).keyword_score,
      views |-> Catalogue(i).views, clicks |-> Catalogue(i).clicks,
      is_sold |-> o.is_sold] : n \in names, o \in Offers}

\* The tables of at most n rows that create requests alone produce.
RECURSIVE Tables(_)
Tables(n) ==
    IF n = 0 THEN {NoRows}
    ELSE LET smaller == Tables(n - 1)
         IN  smaller \cup
             {create_domain(db, d).db :
                db \in {t \in smaller : Len(t) = n - 1},
                d \in Payloads(n, {NameOf(n)})}

\* The tables of at most n unsold listings that differ in nothing but name,
\* category and price, so that listings score alike.
RECURSIVE TieTables(_)
TieTables(n) ==
    IF n = 0 THEN {NoRows}
    ELSE LET smaller == TieTables(n - 1)
         IN  smaller \cup
             {create_domain(db, d).db :
                db \in {t \in smaller : Len(t) = n - 1},
                d \in {x \in Payloads(1, {NameOf(n)}) : ~x.is_sold}}

\* DomainUpdate payloads (model_dump(exclude_unset=True)).
Updates ==
    {[is_sold |-> TRUE]} \cup {[price |-> p] : p \in Prices}

\* limit: both ends of the range the endpoints accept, and 2.
Limits == {1, 2, 100}

PriceFilters == {{}, {2}}

\* Fault sets of a recommendation call: none, the candidate query, or the
\* category price query made for listing 1.
FaultSets == {{}, {0}, {1}}

QueryArgs ==
    [limit : Limits, price_min : PriceFilters, price_max : PriceFilters,
     category_filter : {{}}, faults : {{}}]
    \cup
    [limit : {100}, price_min : {{}}, price_max : {{}},
     category_filter : {{}}, faults : FaultSets \ {{}}]

CategoryQueryArgs ==
    [category : Categories, limit : Limits, price_min : PriceFilters,
     price_max : PriceFilters, faults : {{}}]

\* Listings handed to rank_domain: the fields it reads.
EngagementCases == {<<0, 0>>, <<20, 0>>, <<20, 1>>, <<1000, 200>>, <<1, 2>>}

RankListings ==
    {[category |-> c, price |-> p, keyword_score |-> k,
      views |-> e[1], clicks |-> e[2], is_sold |-> b] :
        c \in Categories, p \in Prices, k \in {0, 100},
        e \in EngagementCases, b \in BOOLEAN}

EngagementViews == {0, 20, 80, 100}

\* Listings on both sides of every threshold the explanation tests:
\* keyword_score 79 and 80, CTR 0.04, 0.05, 0.14 and 0.15.
ExplanationCases ==
    {<<0, 0>>, <<20, 0>>, <<100, 4>>, <<20, 1>>, <<100, 14>>, <<20, 3>>}

ExplanationListings ==
    {[category |-> "tech", price |-> 1, keyword_score |-> k,
      views |-> e[1], clicks |-> e[2], is_sold |-> b] :
        k \in {0, 79, 80, 100}, e \in ExplanationCases, b \in BOOLEAN}

(***************************************************************************)
(* Specifications.                                                         *)
(***************************************************************************)
\* The store and its endpoints from the empty table, one request at a time.
Init ==
    /\ domains = NoRows
    /\ last = [op |-> "none"]

Next ==
    \/ \E d \in Payloads(next_id(domains), {NameOf(next_id(domains))}) :
          next_id(domains) <= MaxId /\ create_domain_endpoint(d)
    \/ \E n \in Names(domains) :
          create_domain_endpoint(CHOOSE d \in Payloads(1, {n}) : TRUE)
    \/ \E id \in 1..MaxId, u \in Updates : update_domain_endpoint(id, u)
    \/ \E id \in 1..MaxId : delete_domain_endpoint(id)
    \/ \E l \in Limits, lo \in PriceFilters, hi \in PriceFilters :
          recommendations_top(l, lo, hi, {})
    \/ \E c \in Categories, l \in Limits :
          recommendations_by_category(c, l, {}, {}, {})

Spec == Init /\ [][Next]_vars

\* get_top_recommendations and get_category_recommendations over drawn
\* tables and arguments.
InitQuery ==
    /\ domains \in Tables(MaxRows) \cup TieTables(MaxRows)
    /\ last \in
         {[op |-> "get_top_recommendations", args |-> a, done |-> FALSE] :
            a \in QueryArgs}
         \cup
         {[op |-> "get_category_recommendations", args |-> a, done |-> FALSE] :
            a \in CategoryQueryArgs}

NextQuery ==
    \/ call_get_top_recommendations
    \/ call_get_category_recommendations

SpecQuery == InitQuery /\ [][NextQuery]_vars

\* rank_domain and calculate_price_competitiveness over drawn tables.
InitRank ==
    /\ domains \in Tables(MaxRankRows)
    /\ last \in
         {[op |-> "rank_domain", args |-> [domain |-> d, fault |-> f],
           done |-> FALSE] :
             d \in RankListings \cup ExplanationListings, f \in BOOLEAN}
         \cup
         {[op |-> "calculate_price_competitiveness",
           args |-> [domain_price |-> p, category |-> c, fault |-> f],
           done |-> FALSE] : p \in Prices \cup {4}, c \in Categories, f \in BOOLEAN}

NextRank ==
    \/ call_rank_domain
    \/ call_calculate_price_competitiveness

SpecRank == InitRank /\ [][NextRank]_vars

\* calculate_engagement and calculate_conversion_signal over drawn views,
\* clicks and sold flags.
InitScorers ==
    /\ domains = NoRows
    /\ last \in
         {[op |-> "calculate_engagement",
           args |-> [views |-> v, clicks |-> c], done |-> FALSE] :
             v \in EngagementViews, c \in 0..MaxClicks}
         \cup
         {[op |-> "calculate_conversion_signal",
           args |-> [is_sold |-> b, clicks |-> c, views |-> v], done |-> FALSE] :
             b \in BOOLEAN, v \in EngagementViews, c \in 0..MaxClicks}

NextScorers ==
    \/ call_calculate_engagement
    \/ call_calculate_conversion_signal

SpecScorers == InitScorers /\ [][NextScorers]_vars

\* get_top_recommendations under every combination of its filters, over
\* small drawn tables.
FilterArgs ==
    [limit : Limits, price_min : PriceFilters, price_max : PriceFilters,
     category_filter : {{}} \cup {{c} : c \in Categories}, faults : {{}}]

InitFilters ==
    /\ domains \in Tables(MaxRankRows)
    /\ last \in {[op |-> "get_top_recommendations", args |-> a, done |-> FALSE] :
                    a \in FilterArgs}

NextFilters == call_get_top_recommendations

SpecFilters == InitFilters /\ [][NextFilters]_vars

\* Every function of the engine that is handed the session: rank_domain,
\* calculate_price_competitiveness, get_top_recommendations and
\* get_category_recommendations, over drawn tables and arguments.
InitEngine == InitQuery \/ InitRank

NextEngine ==
    \/ NextQuery
    \/ NextRank

SpecEngine == InitEngine /\ [][NextEngine]_vars

(***************************************************************************)
(* get_top_recommendations among concurrent writers.  The endpoints are    *)
(* plain `def` handlers, which the server runs on a thread pool, each with *)
(* its own Session (database.get_db).  The call issues one SELECT for the  *)
(* candidates and one more per candidate for the category prices; nothing  *)
(* in database.py or ranking.py ties these statements to one snapshot      *)
(* (no isolation level is set, and a SELECT of the default SQLite driver   *)
(* opens no transaction), so each statement reads the rows committed at    *)
(* the time it runs.  The candidates are ORM objects: their attributes     *)
(* stay as fetched.  The call in flight is kept in `last`:                 *)
(*   pc        "query" before line 299, "rank" inside the loop, "done"     *)
(*   fetched   the local `domains` of the call (line 299)                  *)
(*   ranked    the local `ranked`                                          *)
(*   snapshot  the table as it was at line 299   (history, for properties) *)
(*   reads     the price lists read at line 128  (history, for properties) *)
(*   writes    how many requests of other clients committed meanwhile      *)
(***************************************************************************)
MaxWrites == 1

\* Arguments of the call in flight: every price filter, no category filter.
SnapshotArgs == {a \in QueryArgs : a.limit = 100 /\ a.faults = {}}

\* Line 299: domains = query.all()
top_query ==
    /\ last.pc = "query"
    /\ last' = [last EXCEPT
                  !.pc = "rank",
                  !.snapshot = domains,
                  !.fetched = candidates(domains, last.args.price_min,
                                         last.args.price_max,
                                         last.args.category_filter)]
    /\ UNCHANGED domains

\* Lines 303-315: one iteration of the loop, with the query of line 128.
top_rank ==
    /\ last.pc = "rank"
    /\ Len(last.ranked) < Len(last.fetched)
    /\ LET domain == last.fetched[Len(last.ranked) + 1]
           ranking == rank_domain(domain, domains, FALSE)
       IN  last' = [last EXCEPT
                      !.ranked = Append(@, ranked_entry(domain, ranking)),
                      !.reads = Append(@, category_prices(domains,
                                                          domain.category))]
    /\ UNCHANGED domains

\* Lines 318-321: sort and return.
top_return ==
    /\ last.pc = "rank"
    /\ Len(last.ranked) = Len(last.fetched)
    /\ last' = [last EXCEPT
                  !.pc = "done",
                  !.done = TRUE,
                  !.ret = [raised |-> FALSE,
                           value |-> top_n(sort_desc(last.ranked),
                                           last.args.limit)]]
    /\ UNCHANGED domains

\* Requests of other clients that commit while the call is in flight.
concurrent_create_domain(domain_create) ==
    /\ last.pc # "done" /\ last.writes < MaxWrites
    /\ domains' = create_domain(domains, domain_create).db
    /\ last' = [last EXCEPT !.writes = @ + 1]

concurrent_update_domain(domain_id, update_data) ==
    /\ last.pc # "done" /\ last.writes < MaxWrites
    /\ update_domain(domains, domain_id, update_data).found
    /\ domains' = update_domain(domains, domain_id, update_data).db
    /\ last' = [last EXCEPT !.writes = @ + 1]

concurrent_delete_domain(domain_id) ==
    /\ last.pc # "done" /\ last.writes < MaxWrites
    /\ delete_domain(domains, domain_id).found
    /\ domains' = delete_domain(domains, domain_id).db
    /\ last' = [last EXCEPT !.writes = @ + 1]

InitSnapshot ==
    /\ domains \in Tables(MaxId)
    /\ last \in {[op |-> "get_top_recommendations", args |-> a, done |-> FALSE,
                  pc |-> "query", snapshot |-> NoRows, fetched |-> <<>>,
                  ranked |-> <<>>, reads |-> <<>>, writes |-> 0,
                  ret |-> [raised |-> FALSE, value |-> <<>>]] :
                    a \in SnapshotArgs}

NextSnapshot ==
    \/ top_query
    \/ top_rank
    \/ top_return
    \/ \E d \in Payloads(next_id(domains), {NameOf(next_id(domains))}) :
          next_id(domains) <= MaxId /\ concurrent_create_domain(d)
    \/ \E id \in 1..MaxId, u \in Updates : concurrent_update_domain(id, u)
    \/ \E id \in 1..MaxId : concurrent_delete_domain(id)

SpecSnapshot == InitSnapshot /\ [][NextSnapshot]_vars

(***************************************************************************)
(* Concurrent create requests.  Each request runs create_domain_endpoint   *)
(* on its own thread and Session: the SELECT for an existing name (api.py  *)
(* line 35) and the INSERT with its commit (crud.create_domain) are two    *)
(* statements, and requests of other clients may commit between them.  The *)
(* unique index on domain_name makes the commit of a second row with a     *)
(* stored name raise; the endpoint catches nothing, so the exception       *)
(* leaves the handler and the request is answered with status 500.  `last` *)
(* holds the requests in flight: for each its payload, its position (pc    *)
(* "check" before line 35, "create" before line 41, "done") and its        *)
(* response.                                                               *)
(***************************************************************************)
MaxCreates == 2

RequestNames == {NameOf(i) : i \in 1..MaxId}

\* The create request for a name.
CreateRequest(n) == CHOOSE d \in Payloads(1, {n}) : TRUE

\* Lines 35-40: the lookup and the rejection of a stored name.
create_check(c) ==
    LET domain_create == last.requests[c].domain_create
        existing == SelectSeq(domains,
                          LAMBDA r : r.domain_name = domain_create.domain_name)
    IN  /\ last.requests[c].pc = "check"
        /\ last' = [last EXCEPT !.requests[c] =
                       IF existing # <<>>
                       THEN [@ EXCEPT
                               !.pc = "done",
                               !.ret = [status |-> 400,
                                        detail |-> "Domain name already exists"]]
                       ELSE [@ EXCEPT !.pc = "create"]]
        /\ UNCHANGED domains

\* Lines 41-42: crud.create_domain and the response.
create_insert(c) ==
    LET created == create_domain(domains, last.requests[c].domain_create)
    IN  /\ last.requests[c].pc = "create"
        /\ domains' = created.db
        /\ last' = [last EXCEPT !.requests[c] =
                       [@ EXCEPT
                          !.pc = "done",
                          !.ret = IF created.raised
                                  THEN [status |-> 500]
                                  ELSE [status |-> 201, body |-> created.value]]]

InitCreates ==
    /\ domains \in Tables(MaxId - 1)
    /\ last \in {[op |-> "create_domain_endpoint", requests |-> r] :
                   r \in [1..MaxCreates ->
                            {[domain_create |-> CreateRequest(n), pc |-> "check",
                              ret |-> [status |-> 0]] : n \in RequestNames}]}

NextCreates ==
    \/ \E c \in 1..MaxCreates : create_check(c)
    \/ \E c \in 1..MaxCreates : create_insert(c)

SpecCreates == InitCreates /\ [][NextCreates]_vars

(***************************************************************************)
(* Properties of the scorers and the rank engine.                          *)
(***************************************************************************)
Ranked == last.op = "rank_domain" /\ last.done

Priced == last.op = "calculate_price_competitiveness" /\ last.done

Engaged == last.op = "calculate_engagement" /\ last.done

\* The prices of the unsold listings of a category, read off the table.
UnsoldPrices(category) ==
    {domains[i].price : i \in {j \in 1..Len(domains) :
        domains[j].category = category /\ ~domains[j].is_sold}}

Spread(category) == Cardinality(UnsoldPrices(category)) >= 2

\* C1: whatever valid listing rank_domain is given (sold or not, clicks
\* above views or not) and whatever the table holds, the call returns a
\* result whose total_score lies in [0, 100] (0 .. 10000 hundredths).
C1_TotalInRange ==
    Ranked => /\ ~last.ret.raised
              /\ last.ret.total_score >= 0
              /\ last.ret.total_score <= 10000

\* A sold listing with more clicks than views, priced below its category's
\* cheapest unsold listing, reaches the upper end of the range.
C1_Witness ==
    /\ Ranked
    /\ last.args.domain.clicks > last.args.domain.views
    /\ last.args.domain.is_sold
    /\ Spread(last.args.domain.category)
    /\ last.ret.total_score = 10000

Scenario1 ==
    /\ Ranked
    /\ ~last.args.fault
    /\ ~last.args.domain.is_sold
    /\ last.args.domain.keyword_score = 100
    /\ last.args.domain.views = 1000
    /\ last.args.domain.clicks = 200
    /\ Spread(last.args.domain.category)
    /\ \A p \in UnsoldPrices(last.args.domain.category) : last.args.domain.price <= p
    /\ last.args.domain.price \in UnsoldPrices(last.args.domain.category)

Scenario1Components ==
    /\ ~last.ret.raised
    /\ last.ret.scores.keyword_relevance = Round(WEIGHTS.keyword_relevance, 100)
    /\ last.ret.scores.engagement = Round(WEIGHTS.engagement, 100)
    /\ last.ret.scores.price_competitiveness =
           Round(WEIGHTS.price_competitiveness, 100)
    /\ last.ret.scores.conversion_signal =
           Round(RMul(WEIGHTS.conversion_signal,
                      RAdd(Num(1), BONUSES.high_interest)), 100)

\* C7 as stated: in scenario 1 (unsold, keyword_score 100, 1000 views, 200
\* clicks, the cheapest unsold price of a category with two distinct
\* prices) every component is at its full weight, the conversion signal
\* carries the high-interest bonus, and total_score is 100.
C7_Original ==
    Scenario1 => Scenario1Components /\ last.ret.total_score = 10000

\* C7 amended: the same components, and total_score is 99.69, the raw total
\* 96.2 over max_possible 96.5.
C7_Scenario1 ==
    Scenario1 => Scenario1Components /\ last.ret.total_score = 9969

C7_Witness == Scenario1

\* C8: against a category whose unsold prices differ, a dearer listing never
\* scores above a cheaper one; the category's cheapest unsold price scores
\* exactly W_price and its dearest exactly 0.
C8_PriceOrderReversing ==
    Priced /\ ~last.args.fault /\ Spread(last.args.category) =>
        LET own == last.args.domain_price
            score(p) == calculate_price_competitiveness(
                            p, last.args.category, domains, FALSE).value
        IN  /\ ~last.ret.raised
            /\ \A p \in 1..(MaxOf(Prices) + 1) :
                  /\ own < p => RGe(last.ret.value, score(p))
                  /\ p < own => RGe(score(p), last.ret.value)
            /\ own = MinOf(UnsoldPrices(last.args.category)) =>
                  last.ret.value = WEIGHTS.price_competitiveness
            /\ own = MaxOf(UnsoldPrices(last.args.category)) =>
                  last.ret.value = Num(0)

\* A price strictly between the category's cheapest and dearest.
C8_Witness ==
    /\ Priced /\ ~last.args.fault
    /\ MinOf(UnsoldPrices(last.args.category) \cup {last.args.domain_price})
          < last.args.domain_price
    /\ MaxOf(UnsoldPrices(last.args.category)) > last.args.domain_price
    /\ RLt(Num(0), last.ret.value)
    /\ RLt(last.ret.value, WEIGHTS.price_competitiveness)

\* C9: when the category has no unsold listing, or all its unsold listings
\* share one price, the score is W_price * 0.5 whatever price is scored.
C9_NeutralWithoutSpread ==
    Priced /\ ~Spread(last.args.category) =>
        /\ ~last.ret.raised
        /\ last.ret.value = RMul(WEIGHTS.price_competitiveness, Rat(1, 2))

\* One unsold listing in the category, scored against another price.
C9_Witness ==
    /\ Priced /\ ~last.args.fault
    /\ Cardinality({i \in 1..Len(domains) :
          domains[i].category = last.args.category /\ ~domains[i].is_sold}) = 1
    /\ last.args.domain_price \notin UnsoldPrices(last.args.category)

ScoreNames ==
    {"keyword_relevance", "engagement", "price_competitiveness",
     "conversion_signal"}

\* C10: when the category price query raises, calculate_price_competitiveness
\* returns W_price * 0.5 and rank_domain returns a complete result.
C10_FaultIsNeutral ==
    /\ Priced /\ last.args.fault =>
          /\ ~last.ret.raised
          /\ last.ret.value = RMul(WEIGHTS.price_competitiveness, Rat(1, 2))
    /\ Ranked /\ last.args.fault =>
          /\ ~last.ret.raised
          /\ DOMAIN last.ret = {"raised", "total_score", "scores", "explanation"}
          /\ DOMAIN last.ret.scores = ScoreNames
          /\ last.ret.scores.price_competitiveness = 1250

\* The query raises for a listing that would otherwise get full credit.
C10_Witness ==
    /\ Ranked /\ last.args.fault
    /\ Spread(last.args.domain.category)
    /\ last.args.domain.price = MinOf(UnsoldPrices(last.args.domain.category))
    /\ last.ret.scores.price_competitiveness = 1250

\* C5 as stated: for fixed views > 0, more clicks never lower the
\* engagement score.
C5_Original ==
    Engaged /\ last.args.views > 0 =>
        \A c \in 0..MaxClicks :
            last.args.clicks <= c =>
                RLe(last.ret, calculate_engagement(last.args.views, c))

\* C6 as stated: at CTR = 0.05 the score is W_engagement * 0.5 (the low
\* tier's formula at 0.05), and at CTR = 0.15 it is W_engagement.
C6_Original ==
    Engaged /\ last.args.views > 0 =>
        /\ Rat(last.args.clicks, last.args.views) = CTR_THRESHOLD =>
              last.ret = RMul(WEIGHTS.engagement, Rat(1, 2))
        /\ Rat(last.args.clicks, last.args.views) = HIGH_INTEREST_THRESHOLD =>
              last.ret = WEIGHTS.engagement

(***************************************************************************)
(* Properties of the recommendation query.                                 *)
(***************************************************************************)
\* A recommendation call that returned its list.
Recommended ==
    /\ last.op \in {"get_top_recommendations", "get_category_recommendations"}
    /\ last.done
    /\ ~last.ret.raised

AskedCategory ==
    IF last.op = "get_category_recommendations"
    THEN {last.args.category} ELSE last.args.category_filter

\* The row is unsold and within every filter the call supplied.
Passes(r) ==
    /\ ~r.is_sold
    /\ \A m \in last.args.price_min : r.price >= m
    /\ \A m \in last.args.price_max : r.price <= m
    /\ \A c \in AskedCategory : r.category = c

Passing == {j \in 1..Len(domains) : Passes(domains[j])}

ReturnedIds == {last.ret.value[i].id : i \in 1..Len(last.ret.value)}

\* C2: every entry returned is a listing of the table that is unsold and
\* satisfies each supplied filter: price >= price_min, price <= price_max
\* (both inclusive), category = the category asked for.
C2_OnlyEligibleReturned ==
    Recommended =>
        \A i \in 1..Len(last.ret.value) :
            \E j \in Passing :
                /\ domains[j].id = last.ret.value[i].id
                /\ domains[j].price = last.ret.value[i].price
                /\ domains[j].category = last.ret.value[i].category

\* A category call with both price filters returns a listing priced exactly
\* at the two bounds, while the table also holds a sold listing and an
\* unsold one outside the filters.
C2_Witness ==
    /\ Recommended
    /\ last.op = "get_category_recommendations"
    /\ last.args.price_min # {} /\ last.args.price_max # {}
    /\ Len(last.ret.value) >= 1
    /\ \E j \in 1..Len(domains) : domains[j].is_sold
    /\ \E j \in 1..Len(domains) : ~domains[j].is_sold /\ j \notin Passing

\* C3: the call returns at most limit entries, and exactly the smaller of
\* limit and the number of unsold listings that pass the filters.
C3_ExactlyMinLimitEligible ==
    Recommended =>
        /\ Len(last.ret.value) <= last.args.limit
        /\ Len(last.ret.value) =
              IF last.args.limit < Cardinality(Passing)
              THEN last.args.limit ELSE Cardinality(Passing)

\* limit 2 with three eligible candidates gives exactly two entries.
C3_Witness ==
    /\ Recommended
    /\ last.args.limit = 2
    /\ Cardinality(Passing) = 3
    /\ Len(last.ret.value) = 2

\* C4: the returned list is a sorted top-N: total_score never increases
\* from one entry to the next, and no eligible candidate left out scores
\* strictly above a returned entry.
C4_SortedTopN ==
    Recommended =>
        /\ \A i \in 1..(Len(last.ret.value) - 1) :
              last.ret.value[i].ranking.total_score
                  >= last.ret.value[i + 1].ranking.total_score
        /\ \A j \in Passing :
              domains[j].id \notin ReturnedIds =>
                  \A i \in 1..Len(last.ret.value) :
                      rank_domain(domains[j], domains,
                                  domains[j].id \in last.args.faults).total_score
                          <= last.ret.value[i].ranking.total_score

\* Two entries returned out of table order with different scores, and an
\* eligible candidate left out.
C4_Witness ==
    /\ Recommended
    /\ Len(last.ret.value) = 2
    /\ last.ret.value[1].id > last.ret.value[2].id
    /\ last.ret.value[1].ranking.total_score
          > last.ret.value[2].ranking.total_score
    /\ \E j \in Passing : domains[j].id \notin ReturnedIds

(***************************************************************************)
(* Properties of the recommendation call among concurrent writers.         *)
(***************************************************************************)
\* The (min, max) pair of a price list; <<>> when the list is empty.
PricePair(prices) ==
    IF prices = <<>> THEN <<>>
    ELSE LET S == {prices[i] : i \in 1..Len(prices)}
         IN  <<MinOf(S), MaxOf(S)>>

\* C11 as stated: within one get_top_recommendations call that runs while
\* other requests create, update or delete listings, every candidate is
\* scored against the (min, max) of the unsold prices of its category in the
\* store state the candidates were fetched from, so candidates of one
\* category are scored against one pair.
C11_Original ==
    /\ \A i \in 1..Len(last.reads) :
          PricePair(last.reads[i]) =
              PricePair(category_prices(last.snapshot, last.fetched[i].category))
    /\ \A i, j \in 1..Len(last.reads) :
          last.fetched[i].category = last.fetched[j].category =>
              PricePair(last.reads[i]) = PricePair(last.reads[j])

(***************************************************************************)
(* Properties of the conversion signal.                                    *)
(***************************************************************************)
Converted == last.op = "calculate_conversion_signal" /\ last.done

\* CTR >= 0.15 with views > 0, in integers.
HighInterest(views, clicks) == views > 0 /\ 100 * clicks >= 15 * views

\* C12: a sold listing scores W_conversion * (1 + bonus_sold) whatever its
\* clicks and views; an unsold listing with views > 0 and CTR >= 0.15 scores
\* W_conversion * (1 + bonus_high_interest); every other listing scores
\* exactly W_conversion.  So sold >= unsold high-interest >= base, and the
\* result never exceeds W_conversion * 1.2.
C12_BonusOrder ==
    Converted =>
        LET W == WEIGHTS.conversion_signal
            a == last.args
            sold == RMul(W, RAdd(Num(1), BONUSES.sold))
            high == RMul(W, RAdd(Num(1), BONUSES.high_interest))
        IN  /\ a.is_sold => last.ret = sold
            /\ ~a.is_sold /\ HighInterest(a.views, a.clicks) => last.ret = high
            /\ ~a.is_sold /\ ~HighInterest(a.views, a.clicks) => last.ret = W
            /\ RGe(sold, high) /\ RGe(high, W)
            /\ RGe(calculate_conversion_signal(TRUE, a.clicks, a.views), last.ret)
            /\ RGe(last.ret, W)
            /\ RLe(last.ret, RMul(W, Rat(12, 10)))

\* A sold listing whose CTR is also high: one bonus only.
C12_Witness ==
    /\ Converted
    /\ last.args.is_sold
    /\ HighInterest(last.args.views, last.args.clicks)
    /\ last.ret = Rat(165, 10)

(***************************************************************************)
(* Properties of the explanation.                                          *)
(***************************************************************************)
\* The notes, as the response words them.
StrongKeywordNote(d) ==
    "Strong keyword relevance (" \o ToString(d.keyword_score) \o ".0/100)"

CtrPercent(d) == Format1(Rat(100 * d.clicks, d.views)) \o "% CTR)"

HighEngagementNote(d) == "High engagement (" \o CtrPercent(d)

ModerateEngagementNote(d) == "Moderate engagement (" \o CtrPercent(d)

\* CTR >= 0.05 with the CTR of an unviewed listing taken as 0.
ModerateOrMore(d) == d.views > 0 /\ 100 * d.clicks >= 5 * d.views

\* The notes that apply to a listing, in the order of the claim.
NotesOf(d) ==
    (IF d.keyword_score >= 80 THEN <<StrongKeywordNote(d)>> ELSE <<>>)
    \o (IF HighInterest(d.views, d.clicks) THEN <<HighEngagementNote(d)>>
        ELSE IF ModerateOrMore(d) THEN <<ModerateEngagementNote(d)>>
        ELSE <<>>)
    \o (IF d.is_sold THEN <<"Proven conversion (sold)">> ELSE <<>>)

\* C13: the explanation lists, in this order and joined by "; ", the notes
\* that apply: strong keyword relevance iff keyword_score >= 80; then high
\* engagement iff CTR >= 0.15, otherwise moderate engagement iff CTR >= 0.05
\* (never both); then proven conversion iff sold.  It is "Baseline domain"
\* iff no note applies, as for keyword_score 0, no views, no clicks, unsold.
C13_ExplanationNotes ==
    Ranked /\ ~last.ret.raised =>
        LET d == last.args.domain
            notes == NotesOf(d)
            text == last.ret.explanation
        IN  /\ Len(notes) = 0 => text = "Baseline domain"
            /\ Len(notes) = 1 => text = notes[1]
            /\ Len(notes) = 2 => text = notes[1] \o "; " \o notes[2]
            /\ Len(notes) = 3 =>
                  text = notes[1] \o "; " \o notes[2] \o "; " \o notes[3]
            /\ text = "Baseline domain" <=> notes = <<>>
            /\ d.keyword_score = 0 /\ d.views = 0 /\ d.clicks = 0 /\ ~d.is_sold
                  => text = "Baseline domain"

\* A sold listing at both thresholds carries all three notes.
C13_Witness ==
    /\ Ranked
    /\ last.args.domain.keyword_score = 80
    /\ last.args.domain.views = 20 /\ last.args.domain.clicks = 3
    /\ last.args.domain.is_sold
    /\ last.ret.explanation =
          "Strong keyword relevance (80.0/100); High engagement (15.0% CTR); Proven conversion (sold)"

(***************************************************************************)
(* Bounds of the component contributions.                                  *)
(***************************************************************************)
\* The four contributions rank_domain adds up for the listing it was given,
\* before rounding.
RawScores ==
    LET d == last.args.domain
    IN  [keyword_relevance |-> calculate_keyword_relevance(d.keyword_score),
         engagement |-> calculate_engagement(d.views, d.clicks),
         price_competitiveness |->
             calculate_price_competitiveness(d.price, d.category, domains,
                                             last.args.fault).value,
         conversion_signal |->
             calculate_conversion_signal(d.is_sold, d.clicks, d.views)]

RawTotal ==
    RAdd(RAdd(RawScores.keyword_relevance, RawScores.engagement),
         RAdd(RawScores.price_competitiveness, RawScores.conversion_signal))

Between(lo, x, hi) == RLe(lo, x) /\ RLe(x, hi)

\* C14: for every valid listing and table, keyword_relevance equals
\* (keyword_score / 100) * W_keyword and lies in [0, W_keyword], engagement
\* lies in [0, W_engagement], price_competitiveness in [0, W_price],
\* conversion_signal in [W_conversion, 1.2 * W_conversion]; the raw sum never
\* exceeds sum(weights) + W_conversion * max(bonuses) = 96.5.  The scores
\* returned are these contributions rounded to two decimals.
C14_ComponentBounds ==
    Ranked /\ ~last.ret.raised =>
        LET raw == RawScores
            W == WEIGHTS
        IN  /\ raw.keyword_relevance =
                  Rat(last.args.domain.keyword_score * W.keyword_relevance[1], 100)
            /\ Between(Num(0), raw.keyword_relevance, W.keyword_relevance)
            /\ Between(Num(0), raw.engagement, W.engagement)
            /\ Between(Num(0), raw.price_competitiveness, W.price_competitiveness)
            /\ Between(W.conversion_signal, raw.conversion_signal,
                       RMul(W.conversion_signal, Rat(12, 10)))
            /\ RLe(RawTotal, Rat(965, 10))
            /\ \A n \in ScoreNames : last.ret.scores[n] = Round(raw[n], 100)

\* Every contribution at its upper end: the raw sum reaches 96.5.
C14_Witness ==
    /\ Ranked /\ ~last.args.fault
    /\ last.args.domain.views = 1000 /\ last.args.domain.clicks = 200
    /\ last.args.domain.is_sold
    /\ RawTotal = Rat(965, 10)
    /\ last.ret.scores.conversion_signal = 1650

(***************************************************************************)
(* The engine reads and never writes.                                      *)
(***************************************************************************)
\* C15: a rank_domain, get_top_recommendations or
\* get_category_recommendations call leaves the table as it found it: the
\* same listings with the same price, keyword_score, views, clicks, sold
\* flag, category and name.  (WEIGHTS, BONUSES and the thresholds are
\* definitions of this module, as no statement of the source assigns to
\* them.)
C15_ReadOnly == [][domains' = domains]_vars

\* A recommendation call that ranked two stored listings and returned them.
C15_Witness ==
    /\ Recommended
    /\ Len(domains) >= 2
    /\ Len(last.ret.value) >= 2
    /\ \A i \in 1..Len(last.ret.value) :
          \E j \in 1..Len(domains) :
              /\ domains[j].id = last.ret.value[i].id
              /\ domains[j].views = last.ret.value[i].views

(***************************************************************************)
(* Properties of concurrent create requests.                               *)
(***************************************************************************)
Answered == {c \in 1..MaxCreates : last.requests[c].pc = "done"}

\* No two rows of the table share a domain_name.
NoDuplicateNames ==
    \A i, j \in 1..Len(domains) :
        domains[i].domain_name = domains[j].domain_name => i = j

\* C16 as stated: in every interleaving of create requests, two concurrent
\* requests with one name included, a request is answered 201 with the row
\* stored under its name, or, its name being stored already, 400 "Domain name
\* already exists"; and no two stored listings share a domain_name.
C16_Original ==
    /\ NoDuplicateNames
    /\ \A c \in Answered :
          LET r == last.requests[c]
          IN  \/ /\ r.ret.status = 201
                 /\ r.ret.body.domain_name = r.domain_create.domain_name
                 /\ r.ret.body \in {domains[i] : i \in 1..Len(domains)}
              \/ /\ r.ret.status = 400
                 /\ r.ret.detail = "Domain name already exists"
                 /\ r.domain_create.domain_name \in Names(domains)

(***************************************************************************)
(* Ties and filters of the recommendation query.                           *)
(***************************************************************************)
\* The candidate sequence of the call: what line 299 fetched.
Fetched ==
    candidates(domains, last.args.price_min, last.args.price_max, AskedCategory)

\* Where a listing stands in the candidate sequence.
FetchedAt(id) == CHOOSE k \in 1..Len(Fetched) : Fetched[k].id = id

\* C17: two returned entries with equal total_score (the rounded value the
\* sort compares) stand in the order the candidate sequence had them in.
C17_TiesKeepCandidateOrder ==
    Recommended =>
        \A i, j \in 1..Len(last.ret.value) :
            /\ i < j
            /\ last.ret.value[i].ranking.total_score
                  = last.ret.value[j].ranking.total_score
            => FetchedAt(last.ret.value[i].id) < FetchedAt(last.ret.value[j].id)

\* Three entries: the last candidate fetched scores highest and comes
\* first, the two before it tie and keep their order.
C17_Witness ==
    /\ Recommended
    /\ Len(last.ret.value) = 3
    /\ last.ret.value[1].id = 3
    /\ last.ret.value[2].id = 1
    /\ last.ret.value[3].id = 2
    /\ last.ret.value[2].ranking.total_score
          = last.ret.value[3].ranking.total_score

\* C18: over one table, with every query succeeding, a listing returned by
\* this call and by a get_top_recommendations call with any other limit,
\* price_min, price_max or category_filter carries the same ranking in both:
\* the same total_score, component scores and explanation.
C18_FiltersDoNotChangeScores ==
    Recommended /\ last.args.faults = {} =>
        \A a \in FilterArgs :
            LET other == get_top_recommendations(
                             domains, a.limit, a.price_min, a.price_max,
                             a.category_filter, {}).value
            IN  \A i \in 1..Len(last.ret.value), j \in 1..Len(other) :
                    last.ret.value[i].id = other[j].id =>
                        last.ret.value[i].ranking = other[j].ranking

\* The only listing at or above price_min is the dearest of its category:
\* it scores 0 on price, although it is the only candidate.
C18_Witness ==
    /\ Recommended /\ last.args.faults = {}
    /\ last.args.price_min # {} /\ last.args.price_max = {}
    /\ Len(last.ret.value) = 1
    /\ last.ret.value[1].ranking.scores.price_competitiveness = 0
    /\ \E j \in 1..Len(domains) :
          /\ domains[j].category = last.ret.value[1].category
          /\ ~domains[j].is_sold
          /\ domains[j].price < last.ret.value[1].price

(***************************************************************************)
(* Engagement of a listing nobody has viewed.                              *)
(***************************************************************************)
\* What calculate_engagement gives a listing with no views.
Unviewed == calculate_engagement(0, 0)

\* C19: a listing with views = 0 scores W_engagement * 0.3; a listing with
\* views > 0 scores strictly less than that when its CTR is below 0.03 (and
\* 0 when its CTR is 0), and exactly that when its CTR is 0.03.  So the
\* first views of a listing, without clicks in proportion, lower its score.
C19_UnviewedAboveLowCtr ==
    Engaged =>
        LET v == last.args.views
            c == last.args.clicks
            unviewed == RMul(WEIGHTS.engagement, Rat(3, 10))
        IN  /\ Unviewed = unviewed
            /\ v = 0 => last.ret = unviewed
            /\ v > 0 /\ 100 * c < 3 * v => RLt(last.ret, unviewed)
            /\ v > 0 /\ 100 * c = 3 * v => last.ret = unviewed
            /\ v > 0 /\ c = 0 => last.ret = Num(0)

\* 100 views and 2 clicks (CTR 0.02) score 5.0, below the 7.5 of no views.
C19_Witness ==
    /\ Engaged
    /\ last.args.views = 100 /\ last.args.clicks = 2
    /\ last.ret = Num(5)
    /\ RLt(last.ret, Unviewed)

====
